---- MODULE Spec2Model ----
(***************************************************************************)
(* AriwaClient (src/src/AriwaClient.ts): the connection lifecycle of the   *)
(* websocket client, its frame classifier and its resumption marker, with  *)
(* the durable marker file of src/src/utils/persist.ts; and the two REST   *)
(* wrappers the client owns, TopGGAPI and AriwaAPI, with their caches, the *)
(* rate-limit lockout and the transport of safeFetchJSON.                  *)
(*                                                                         *)
(* One action per handler.  Every socket the client ever created is kept   *)
(* in socks, because a socket that is no longer this.ws keeps the          *)
(* listeners _connect registered on it and still delivers its events.      *)
(***************************************************************************)
EXTENDS Integers, Sequences, FiniteSets, Bags

\* ---------------------------------------------------------------- bounds
\* Sockets the client may create in one run (by connect() or by a timer).
MaxSockets == 3
\* Sockets of the runs that explore every frame and every marker.
MaxFrameSockets == 1
\* Largest marker value a frame, an override or the file may carry.
MaxTs == 2

\* Latest reading of the clock in the runs of the REST wrappers, in ticks.
MaxNow == 3
\* Network requests the REST wrappers may send in one run.
MaxRequests == 2
\* The same in the runs that explore every method and every argument.
MaxArgRequests == 1
\* Largest attempt number of the runs that explore the reconnection delay.
MaxAttemptNo == 12

\* ------------------------------------------------------------- constants
\* undefined, for the optional numbers (markers, op codes, payload fields).
Undefined == -1
\* options.reconnectOptions.maxAttempts defaults to Infinity.
Infinity == 1000
\* options.reconnectOptions.initialDelay and maxDelay defaults, in ms.
DefaultDelays == <<1000, 30000>>
\* The normal-closure code the close handler tests for.
NormalClosure == 1000
\* Milliseconds in one tick of the clock of the REST wrappers.
TimeUnit == 30000
\* TopGGAPI._fetch, line 203: the lockout lasts 60 * 1000 ms.
RateLimitWindow == (60 * 1000) \div TimeUnit
\* Both constructors: cacheTTL defaults to 5 * 60 * 1000 ms.
DefaultTTL == (5 * 60 * 1000) \div TimeUnit

VARIABLES
    autoReconnect,          \* options.autoReconnect ?? true
    maxReconnectAttempts,   \* options.reconnectOptions.maxAttempts ?? Infinity
    persistPath,            \* TRUE iff options.persistPath is set
    onError,                \* TRUE iff the caller listens to the client's 'error'
    reconnectDelay,         \* options.reconnectOptions.initialDelay ?? 1000
    maxReconnectDelay,      \* options.reconnectOptions.maxDelay ?? 30000
    ws,                     \* this.ws: index into socks, 0 for undefined
    socks,                  \* every WebSocket created so far, in order
    lastMessageTimestamp,   \* this.lastMessageTimestamp
    reconnectAttempts,      \* this.reconnectAttempts
    intentionalClose,       \* this.intentionalClose
    timers,                 \* pending setTimeout(() => this._connect())
    loads,                  \* connect() calls suspended in loadTimestamp
    file,                   \* marker stored in the file at persistPath
    writes,                 \* markers of the fs.writeFile calls in flight
    crashed,                \* an 'error' event nobody listens to ended the process
    disc,                   \* history: how disconnect() was called since connect()
    made,                   \* history: reconnect() calls since the last open or connect()
    last,                   \* history: the handler that ran last and what it did
    token,                  \* TRUE iff options.topgg gave TopGGAPI a token
    cacheTTL,               \* cacheTTL of both wrappers (options.cache), in ticks
    cache,                  \* the cache Maps of both wrappers: key -> entry
    rateLimitReset,         \* TopGGAPI.rateLimitReset
    now,                    \* Date.now(), in ticks
    flight,                 \* bag of the calls awaiting safeFetchJSON
    sent,                   \* network requests sent so far
    srv,                    \* version of the data the servers hold
    dirty,                  \* history: keys mutated and not read since
    limited,                \* history: time of the last 429 response
    ret                     \* history: the wrapper step that ran last

\* The state of the REST wrappers.
api == <<token, cacheTTL, cache, rateLimitReset, now, flight, sent, srv,
         dirty, limited, ret>>

\* The state of the websocket client.
client == <<autoReconnect, maxReconnectAttempts, persistPath, onError,
            reconnectDelay, maxReconnectDelay, ws, socks,
            lastMessageTimestamp, reconnectAttempts, intentionalClose, timers,
            loads, file, writes, crashed, disc, made, last>>

vars == <<client, api>>

config == <<autoReconnect, maxReconnectAttempts, persistPath, onError,
            reconnectDelay, maxReconnectDelay>>

\* ------------------------------------------------------------ small sets
Markers == 0..MaxTs
OptMarkers == Markers \cup {Undefined}
MaxAttemptsChoices == {1, 2, Infinity}
\* Close codes: normal closure, and 1006 for a connection that dropped
\* without a close frame.
CloseCodes == {NormalClosure, 1006}
Ops == {3, 10, 11, 12, 99}

\* d of a frame: an object without a ts property of its own (reading d.ts
\* gives undefined).  A payload is described by what its properties read as.
DVals == {[id |-> 1, ts |-> Undefined]}
NoPayload == [id |-> Undefined, ts |-> Undefined]

\* JavaScript truthiness of an optional number: undefined and 0 are falsy.
Truthy(v) == v # Undefined /\ v # 0

\* Number.prototype.toString for the markers of the model.
toString(n) ==
    CASE n = 0 -> "0"
      [] n = 1 -> "1"
      [] n = 2 -> "2"
      [] n = 3 -> "3"
      [] OTHER -> "NaN"

\* The header left out of the handshake.
Absent == "absent"

\* _connect, line 68: the lastMessageTimestamp handshake header.
Header(m) == IF Truthy(m) THEN toString(m) ELSE Absent

\* A socket as _connect creates it (lines 70-87): CONNECTING, with the
\* client's four listeners, no listener of disconnect() yet.  promise is
\* "pending" while the promise of the disconnect() called on this socket is
\* unsettled, its 5 second timeout armed.  asked is history: disconnect()
\* has asked this socket to close.
NewSocket ==
    [readyState |-> "CONNECTING", handlers |-> TRUE, dl |-> FALSE,
     promise |-> "none", asked |-> FALSE]

\* A socket that has emitted 'close' delivers no further event, so the
\* listeners still registered on it are not tracked.
ClosedSocket ==
    [readyState |-> "CLOSED", handlers |-> FALSE, dl |-> FALSE,
     promise |-> "none", asked |-> FALSE]

\* --------------------------------------------------------------- history
NoRaw == [kind |-> "none", op |-> Undefined, d |-> NoPayload, ts |-> Undefined]

Did(act) ==
    [act |-> act, code |-> Undefined, arg |-> Undefined,
     raw |-> NoRaw, emits |-> <<>>, sched |-> FALSE, created |-> FALSE,
     threw |-> FALSE, handled |-> FALSE, delay |-> <<0, 1>>,
     header |-> Absent, settled |-> "none"]

Event(name, arg, payload) == [name |-> name, arg |-> arg, payload |-> payload]

\* ---------------------------------------------------- REST wrapper values
\* cache.get(key) of a key the Map does not hold.
NoEntry == [data |-> Undefined, expiry |-> Undefined]

\* this.cache.get(k), lines 229 and 335.
CacheGet(k) == IF k \in DOMAIN cache THEN cache[k] ELSE NoEntry

\* The Map after this.cache.set(k, e), lines 236 and 342.
CacheSet(k, e) ==
    [x \in DOMAIN cache \cup {k} |-> IF x = k THEN e ELSE cache[x]]

\* The Map after this.cache.delete(k) for every k of ks, lines 269-272.
CacheDelete(ks) == [x \in DOMAIN cache \ ks |-> cache[x]]

\* options.cache: a short custom TTL, or the default.
CacheTTLs == {1, DefaultTTL}

\* The methods of TopGGAPI (lines 241-267) and of AriwaAPI (lines 347-358).
\* arg describes the argument that matters: the options of getBots ("none"
\* for {}, "plain" for {limit: 1}, "undefined" for {limit: undefined}), the
\* userId of hasVoted, the enabled flag of setUserReminders.
TopGGCalls ==
    {[api |-> "topgg", m |-> m, arg |-> "plain"] :
        m \in {"postStats", "getBots", "getBot", "getVotes", "hasVoted",
               "getStats"}}
    \cup {[api |-> "topgg", m |-> "getBots", arg |-> a] :
             a \in {"none", "undefined"}}
    \cup {[api |-> "topgg", m |-> "hasVoted", arg |-> "undefined"]}
AriwaCalls ==
    {[api |-> "wsApi", m |-> m, arg |-> "plain"] : m \in {"getEntity", "getUser"}}
    \cup {[api |-> "wsApi", m |-> "setUserReminders", arg |-> a] :
             a \in {"true", "false", "undefined"}}
Calls == TopGGCalls \cup AriwaCalls

\* The method argument _fetchWithCache receives: every method but postStats
\* (POST) and setUserReminders (PATCH) is a GET.
IsGet(c) == c.m \notin {"postStats", "setUserReminders"}

\* getCacheKey (lines 164-171 and 301-303) of the path and query of call c,
\* for bot id B and user id U.  The keys of the two wrappers differ, so one
\* map stands for both caches.
getCacheKey(c) ==
    CASE c.m = "getBots" /\ c.arg = "none"       -> "/bots?"
      [] c.m = "getBots" /\ c.arg = "plain"      -> "/bots?limit=1"
      [] c.m = "getBots" /\ c.arg = "undefined"  -> "/bots?limit=undefined"
      [] c.m = "getBot"                          -> "/bots/B"
      [] c.m = "getVotes"                        -> "/bots/B/votes"
      [] c.m = "hasVoted" /\ c.arg = "plain"     -> "/bots/B/check?userId=U"
      [] c.m = "hasVoted" /\ c.arg = "undefined" -> "/bots/B/check?userId=undefined"
      [] c.m = "getStats"                        -> "/bots/B/stats"
      [] c.m = "postStats"                       -> "/bots/B/stats"
      [] c.m = "getEntity"                       -> "/entity"
      [] c.m = "getUser"                         -> "/user/U"
      [] OTHER                                   -> "/user/U/reminders"

\* The keys a successful mutating call deletes, lines 218-223 and 327-329.
Invalidates(c) ==
    CASE c.m = "postStats"        -> {"/bots/B/stats", "/bots/B"}
      [] c.m = "setUserReminders" -> {"/user/U"}
      [] OTHER                    -> {}

\* The cache test with >= for >: an entry is served at its expiry time.
Fresh_Inclusive(e, t) == e # NoEntry /\ e.expiry >= t

\* cached && cached.expiry > Date.now(), lines 230 and 336.
Fresh(e, t) == e # NoEntry /\ e.expiry > t

\* TopGGAPI._fetch, lines 185-190: v.toString() on a query value that is
\* undefined throws a TypeError.
QueryThrows(c) == c.api = "topgg" /\ c.arg = "undefined"

\* What the method hands back for the payload d: hasVoted (lines 257-263)
\* returns voted === 1, as 1 or 0, the server's voted field being d % 2.
Unwrap(c, d) == IF c.m = "hasVoted" THEN (IF d % 2 = 1 THEN 1 ELSE 0) ELSE d

\* What safeFetchJSON (fetcher, lines 3-51) can resolve with: a payload, or
\* a failure message naming the status; a failure whose status is not 429
\* may still carry the text 429 in its url or body.
Outcomes ==
    {"ok", "status429", "status500", "status500text429", "networkError"}

\* result.unwrapErr().includes('429'), line 202.
Includes429(o) == o \in {"status429", "status500text429"}

NoCall == [api |-> "none", m |-> "none", arg |-> "none"]

Ret(act) ==
    [act |-> act, c |-> NoCall, kind |-> "none", msg |-> "", data |-> Undefined,
     net |-> FALSE, hit |-> FALSE]

\* Both wrappers as constructed, before any call.
ApiIdle ==
    /\ cache = <<>>
    /\ rateLimitReset = Undefined
    /\ now = 0
    /\ flight = EmptyBag
    /\ sent = 0
    /\ srv = 0
    /\ dirty = {}
    /\ limited = Undefined
    /\ ret = Ret("init")

\* ------------------------------------------------------------------ Init
\* The client as its constructor leaves it (lines 35-53), with any options;
\* listening tells whether the caller subscribes a listener to 'error',
\* stored is what the marker file may hold from an earlier run, and delays
\* the pairs <<initialDelay, maxDelay>> the options may give.
Constructed(listening, stored, delays) ==
    /\ autoReconnect \in BOOLEAN
    /\ \E d \in delays : reconnectDelay = d[1] /\ maxReconnectDelay = d[2]
    /\ maxReconnectAttempts \in MaxAttemptsChoices
    /\ persistPath \in BOOLEAN
    /\ onError = listening
    /\ ws = 0
    /\ socks = <<>>
    /\ lastMessageTimestamp = Undefined
    /\ reconnectAttempts = 0
    /\ intentionalClose = FALSE
    /\ timers = 0
    /\ loads = 0
    /\ file \in stored
    /\ writes = {}
    /\ crashed = FALSE
    /\ disc = {}
    /\ made = 0
    /\ last = Did("init")
    /\ token = TRUE
    /\ cacheTTL = DefaultTTL
    /\ ApiIdle

\* A caller that listens to 'error', as the README shows, and no marker
\* file yet.
Init == Constructed(TRUE, {Undefined}, {DefaultDelays})

\* Sockets created so far or certain to be: every pending timer and every
\* suspended connect() creates one.
Committed == Len(socks) + timers + loads

\* --------------------------------------------------------------- connect
\* _connect (lines 62-88) with the marker m the client holds when it runs.
_connect(m) ==
    /\ socks' = Append(socks, NewSocket)
    /\ ws' = Len(socks) + 1

\* connect(m), lines 55-60, when nothing is awaited: an override is given
\* or no persistPath is configured.
connect(m) ==
    /\ m # Undefined \/ ~persistPath
    /\ lastMessageTimestamp' = m
    /\ intentionalClose' = FALSE
    /\ reconnectAttempts' = 0
    /\ _connect(m)
    /\ disc' = {}
    /\ made' = 0
    /\ last' = [Did("connect") EXCEPT !.arg = m, !.created = TRUE,
                                      !.header = Header(m)]
    /\ UNCHANGED <<api, config, timers, loads, file, writes, crashed>>

\* connect() without an override and with a persistPath, line 56: the call
\* is suspended in `await loadTimestamp(...)` before anything is assigned.
connectLoad ==
    /\ persistPath
    /\ loads' = loads + 1
    /\ disc' = {}
    /\ last' = Did("connectLoad")
    /\ UNCHANGED <<api, config, ws, socks, lastMessageTimestamp, reconnectAttempts,
                   intentionalClose, timers, file, writes, crashed, made>>

\* loadTimestamp (persist.ts 15-26): the stored marker, or undefined when
\* the file is missing or the read fails or times out.
LoadResults == {file, Undefined}

\* The rest of connect() once loadTimestamp has settled with v, lines 56-59.
connectResume(v) ==
    /\ loads > 0
    /\ loads' = loads - 1
    /\ lastMessageTimestamp' = v
    /\ intentionalClose' = FALSE
    /\ reconnectAttempts' = 0
    /\ _connect(v)
    /\ last' = [Did("connectResume") EXCEPT
                  !.arg = v, !.created = TRUE,
                  !.header = Header(v)]
    /\ disc' = {}
    /\ made' = 0
    /\ UNCHANGED <<api, config, timers, file, writes, crashed>>

\* ------------------------------------------------------------- reconnect
RECURSIVE Pow(_, _)
Pow(b, e) == IF e = 0 THEN 1 ELSE b * Pow(b, e - 1)

\* The delay without the cap of maxReconnectDelay.
BackoffBase_Uncapped(n) ==
    <<reconnectDelay * Pow(3, n - 1), Pow(2, n - 1)>>

\* reconnect, line 117 without the jitter: min(reconnectDelay * 1.5^(n-1),
\* maxReconnectDelay) as the exact fraction <<numerator, denominator>>.
BackoffBase(n) ==
    IF reconnectDelay * Pow(3, n - 1) <= maxReconnectDelay * Pow(2, n - 1)
    THEN <<reconnectDelay * Pow(3, n - 1), Pow(2, n - 1)>>
    ELSE <<maxReconnectDelay, 1>>

\* The pairs <<initialDelay, maxDelay>> of options.reconnectOptions the
\* delay is explored with: the defaults, a short cap, and an initial delay
\* above the cap.
DelayChoices == {DefaultDelays, <<500, 2000>>, <<2000, 1500>>}

\* Math.random() * 1000, line 117: a value in [0, 1000).
Jitters == {0, 250, 500, 750, 999}

\* reconnect(), lines 115-120, when Math.random() * 1000 is j.
reconnect(j) ==
    /\ reconnectAttempts' = reconnectAttempts + 1
    /\ timers' = timers + 1
    /\ made' = made + 1
    /\ last' = [Did("reconnect") EXCEPT
                  !.sched = TRUE,
                  !.delay =
                     LET b == BackoffBase(reconnectAttempts + 1)
                     IN  <<b[1] + j * b[2], b[2]>>]
    /\ UNCHANGED <<api, config, ws, socks, lastMessageTimestamp,
                   intentionalClose, loads, file, writes, crashed, disc>>

\* The guard with <= for <: one attempt too many.
ShouldReconnect_OffByOne(code) ==
    /\ ~intentionalClose
    /\ autoReconnect
    /\ code # NormalClosure
    /\ reconnectAttempts <= maxReconnectAttempts

\* The guard without its test of the close code.
ShouldReconnect_AnyCode(code) ==
    /\ ~intentionalClose
    /\ autoReconnect
    /\ reconnectAttempts < maxReconnectAttempts

\* The guard of the close handler, line 82.
ShouldReconnect(code) ==
    /\ ~intentionalClose
    /\ autoReconnect
    /\ code # NormalClosure
    /\ reconnectAttempts < maxReconnectAttempts

\* The timer callback of reconnect(), line 119.
TimerFire ==
    /\ timers > 0
    /\ timers' = timers - 1
    /\ _connect(lastMessageTimestamp)
    /\ last' = [Did("timer") EXCEPT
                  !.created = TRUE,
                  !.header = Header(lastMessageTimestamp)]
    /\ UNCHANGED <<api, config, lastMessageTimestamp, reconnectAttempts,
                   intentionalClose, loads, file, writes, crashed, disc, made>>

\* ---------------------------------------------------------- socket events
Live(s) == s \in DOMAIN socks /\ socks[s].readyState # "CLOSED"

\* The value the open handler leaves in reconnectAttempts, line 74.
OpenAttempts == 0

\* 'open' on socket s, lines 72-76.
WsOpen(s) ==
    /\ s \in DOMAIN socks
    /\ socks[s].readyState = "CONNECTING"
    /\ socks' = [socks EXCEPT ![s].readyState = "OPEN"]
    /\ reconnectAttempts' =
         IF socks[s].handlers THEN OpenAttempts
         ELSE reconnectAttempts
    /\ last' = [Did("open") EXCEPT
                  !.handled = socks[s].handlers,
                  !.emits = IF socks[s].handlers
                            THEN <<Event("open", Undefined, NoPayload)>>
                            ELSE <<>>]
    /\ made' = 0
    /\ UNCHANGED <<api, config, ws, lastMessageTimestamp, intentionalClose, timers,
                   loads, file, writes, crashed, disc>>

\* removeAllListeners() on a socket.
RemoveAllListeners(sk) == [sk EXCEPT !.handlers = FALSE, !.dl = FALSE]

\* terminate() on a socket: nothing on a closed one; an open or closing
\* one is destroyed and its close event is still to come; one that is still
\* connecting aborts its handshake, which the socket reports with an
\* 'error' event before anything else.
Terminate(sk) ==
    CASE sk.readyState = "CLOSED"     -> sk
      [] sk.readyState = "CONNECTING" -> [sk EXCEPT !.readyState = "ABORTED"]
      [] OTHER                        -> [sk EXCEPT !.readyState = "CLOSING"]

\* Close codes socket s can report next.  A socket that never opened has
\* received no close frame and reports the abnormal code, after an 'error'
\* event: with its listeners removed that event ends the process first.
CodesOf(s) ==
    CASE socks[s].readyState = "ABORTED" -> {}
      [] socks[s].readyState = "CONNECTING" ->
            IF socks[s].handlers THEN CloseCodes \ {NormalClosure} ELSE {}
      [] OTHER -> CloseCodes

\* 'close' on socket s with the given code.  The listener of _connect
\* (lines 80-85) runs first, then the one disconnect() added (lines 131-139),
\* which acts on whatever this.ws is by then.
WsClose(s, code) ==
    /\ Live(s)
    /\ code \in CodesOf(s)
    /\ LET sk == socks[s]
           re == sk.handlers /\ ShouldReconnect(code)
           closed == [socks EXCEPT ![s] =
                        [ClosedSocket EXCEPT
                           !.promise = IF sk.dl THEN "none" ELSE sk.promise]]
       IN  /\ reconnectAttempts' = IF re THEN reconnectAttempts + 1
                                   ELSE reconnectAttempts
           /\ timers' = IF re THEN timers + 1 ELSE timers
           /\ made' = IF re THEN made + 1 ELSE made
           /\ socks' = IF sk.dl /\ ws # 0
                       THEN [closed EXCEPT
                               ![ws] = Terminate(RemoveAllListeners(@))]
                       ELSE closed
           /\ ws' = IF sk.dl THEN 0 ELSE ws
           /\ last' = [Did("close") EXCEPT
                         !.code = code, !.handled = sk.handlers,
                         !.sched = re,
                         !.settled = IF sk.dl /\ sk.promise = "pending"
                                     THEN "resolved" ELSE "none",
                         !.delay = IF re THEN BackoffBase(reconnectAttempts + 1)
                                   ELSE <<0, 1>>,
                         !.emits = IF sk.handlers
                                   THEN <<Event("disconnected", code, NoPayload)>>
                                   ELSE <<>>]
    /\ UNCHANGED <<api, config, lastMessageTimestamp, intentionalClose, loads, file,
                   writes, crashed, disc>>

\* An error listener that also calls reconnect().
WsError_Reconnects(s) ==
    /\ Live(s)
    /\ socks[s].handlers /\ onError
    /\ reconnectAttempts' = reconnectAttempts + 1
    /\ timers' = timers + 1
    /\ made' = made + 1
    /\ last' = [Did("error") EXCEPT
                  !.handled = TRUE,
                  !.sched = TRUE,
                  !.emits = <<Event("error", Undefined, NoPayload)>>]
    /\ UNCHANGED <<api, config, ws, socks, lastMessageTimestamp,
                   intentionalClose, loads, file, writes, crashed, disc>>

\* 'error' on socket s: the listener of _connect (line 87), then the one
\* disconnect() added (lines 140-147).  On a socket whose listeners were
\* removed the event has no listener, and the listener of line 87 emits
\* 'error' on the client, which may have no listener either: an emitter
\* without a listener for 'error' throws, out of the socket's event
\* dispatch, and the process ends before any later listener runs.
WsError(s) ==
    /\ Live(s)
    /\ LET sk == socks[s]
           throws == ~sk.handlers \/ ~onError
           rejects == sk.dl /\ ~throws
           settled == [socks EXCEPT ![s].promise =
                         IF rejects THEN "none" ELSE @]
       IN  /\ socks' = IF rejects /\ ws # 0
                       THEN [settled EXCEPT ![ws] = RemoveAllListeners(@)]
                       ELSE settled
           /\ ws' = IF rejects THEN 0 ELSE ws
           /\ crashed' = throws
           /\ last' = [Did("error") EXCEPT
                         !.handled = sk.handlers,
                         !.threw = throws,
                         !.settled = IF rejects /\ sk.promise = "pending"
                                     THEN "rejected" ELSE "none",
                         !.emits = IF sk.handlers /\ onError
                                   THEN <<Event("error", Undefined, NoPayload)>>
                                   ELSE <<>>]
    /\ UNCHANGED <<api, config, lastMessageTimestamp, reconnectAttempts,
                   intentionalClose, timers, loads, file, writes, disc, made>>

\* ------------------------------------------------------------ disconnect
\* disconnect(), lines 122-150.
disconnect ==
    /\ LET open == ws # 0 /\ socks[ws].readyState = "OPEN"
           how == (IF open THEN {"open"} ELSE {})
                    \cup (IF timers > 0 THEN {"timer"} ELSE {})
       IN  /\ IF open
              THEN /\ intentionalClose' = TRUE
                   /\ socks' = [socks EXCEPT ![ws].dl = TRUE,
                                             ![ws].asked = TRUE,
                                             ![ws].promise = "pending",
                                             ![ws].readyState = "CLOSING"]
                   /\ ws' = ws
              ELSE /\ ws' = 0
                   /\ UNCHANGED <<intentionalClose, socks>>
           /\ disc' = disc \cup how
           /\ last' = [Did("disconnect") EXCEPT
                         !.handled = open,
                         !.settled = IF open THEN "none" ELSE "resolved"]
    /\ UNCHANGED <<api, config, lastMessageTimestamp, reconnectAttempts, timers,
                   loads, file, writes, crashed, made>>

\* The 5 second timeout of the disconnect() called on socket s, line 130:
\* the promise is rejected.
DisconnectTimeout(s) ==
    /\ s \in DOMAIN socks
    /\ socks[s].promise = "pending"
    /\ socks' = [socks EXCEPT ![s].promise = "none"]
    /\ last' = [Did("timeout") EXCEPT !.settled = "rejected"]
    /\ UNCHANGED <<api, config, ws, lastMessageTimestamp, reconnectAttempts,
                   intentionalClose, timers, loads, file, writes, crashed,
                   disc, made>>

\* --------------------------------------------------------- handleMessage
\* What can arrive as the text of a message: text that is not JSON, the
\* JSON value null, a JSON number or string, and frames {op, d, ts?}.
Frames ==
    {[kind |-> "frame", op |-> op, d |-> d, ts |-> ts] :
        op \in Ops, d \in DVals, ts \in OptMarkers}
Malformed ==
    {[kind |-> k, op |-> Undefined, d |-> NoPayload, ts |-> Undefined] :
        k \in {"invalid", "null", "primitive"}}
RawMsgs == Frames \cup Malformed

\* JSON.parse, line 93: throws a SyntaxError on text that is not JSON.
ParseThrows(raw) == raw.kind = "invalid"

\* const { op, d, ts } = data, line 99: destructuring null throws a
\* TypeError; on a number or a string every property reads undefined.
DestructureThrows(raw) == raw.kind = "null"

\* The spread without the ts property: the payload is d as received.
Merge_WithoutTs(d, ts) == d

\* { ...d, ts }, lines 103-105.
Merge(d, ts) == [d EXCEPT !.ts = ts]

\* The switch of lines 101-107: the one event emitted for op, d, ts.
Classify(op, d, ts) ==
    CASE op = 3  -> Event("ready", Undefined, d)
      [] op = 10 -> Event("vote", Undefined, Merge(d, ts))
      [] op = 11 -> Event("test", Undefined, Merge(d, ts))
      [] op = 12 -> Event("reminder", Undefined, Merge(d, ts))
      [] OTHER   -> Event("unknownOp", op, d)

\* The marker handleMessage leaves in memory, lines 109-110.
NextMarker(cur, ts) == IF Truthy(ts) THEN ts ELSE cur

\* What the runtime does with a rejected promise nobody handles: the
\* process ends (TRUE, the default of current Node.js) or only a warning
\* is printed (FALSE).
UnhandledRejectionEnds == {TRUE, FALSE}

\* handleMessage for a message raw delivered by socket s, lines 90-113.
\* The await of saveTimestamp is the last statement: the write is left in
\* flight and nothing runs after it.  An exception inside this async
\* function (the destructuring, or emit('error') without a listener)
\* rejects the promise it returned, which the socket ignores.
handleMessage(s, raw) ==
    /\ s \in DOMAIN socks
    /\ socks[s].handlers
    /\ socks[s].readyState \in {"OPEN", "CLOSING"}
    /\ LET classified == ~ParseThrows(raw) /\ ~DestructureThrows(raw)
           marker == IF classified
                     THEN NextMarker(lastMessageTimestamp, raw.ts)
                     ELSE lastMessageTimestamp
           throws == DestructureThrows(raw) \/ (ParseThrows(raw) /\ ~onError)
       IN  /\ lastMessageTimestamp' = marker
           /\ crashed' \in IF throws THEN UnhandledRejectionEnds ELSE {FALSE}
           /\ writes' = IF classified /\ Truthy(raw.ts) /\ persistPath
                        THEN writes \cup {raw.ts}
                        ELSE writes
           /\ last' = [Did("message") EXCEPT
                         !.raw = raw, !.handled = TRUE,
                         !.threw = throws,
                         !.emits =
                            IF ParseThrows(raw)
                            THEN IF onError
                                 THEN <<Event("error", Undefined, NoPayload)>>
                                 ELSE <<>>
                            ELSE IF DestructureThrows(raw) THEN <<>>
                            ELSE <<Classify(raw.op, raw.d, raw.ts)>>]
    /\ UNCHANGED <<api, config, ws, socks, reconnectAttempts, intentionalClose,
                   timers, loads, file, disc, made>>

\* ----------------------------------------------------------- persistence
\* fs.writeFile of saveTimestamp (persist.ts 4-13) completes.
WriteDone(v) ==
    /\ v \in writes
    /\ file' = v
    /\ writes' = writes \ {v}
    /\ last' = [Did("writeDone") EXCEPT !.arg = v]
    /\ UNCHANGED <<api, config, ws, socks, lastMessageTimestamp, reconnectAttempts,
                   intentionalClose, timers, loads, crashed, disc, made>>

\* saveTimestamp without its catch: the failure reaches handleMessage and
\* is emitted as 'error'.
WriteFail_Surfaces(v) ==
    /\ v \in writes
    /\ writes' = writes \ {v}
    /\ last' = [Did("writeFail") EXCEPT
                  !.arg = v,
                  !.emits = <<Event("error", Undefined, NoPayload)>>]
    /\ UNCHANGED <<api, config, ws, socks, lastMessageTimestamp, reconnectAttempts,
                   intentionalClose, timers, loads, file, crashed, disc, made>>

\* fs.writeFile fails or the 1 second timeout wins the race; saveTimestamp
\* catches and logs, lines 10-12.
WriteFail(v) ==
    /\ v \in writes
    /\ writes' = writes \ {v}
    /\ last' = [Did("writeFail") EXCEPT !.arg = v]
    /\ UNCHANGED <<api, config, ws, socks, lastMessageTimestamp, reconnectAttempts,
                   intentionalClose, timers, loads, file, crashed, disc, made>>

\* ------------------------------------------------------------ REST calls
\* _fetch without its test of the token.
Settles_NoTokenCheck(c) ==
    CASE c.m = "setUserReminders" /\ c.arg = "undefined" -> "err"
      [] IsGet(c) /\ Fresh(CacheGet(getCacheKey(c)), now)   -> "hit"
      [] c.api = "topgg" /\ Truthy(rateLimitReset) /\ now < rateLimitReset
                                                         -> "err"
      [] QueryThrows(c)                                  -> "throw"
      [] OTHER                                           -> ""

\* setUserReminders without its test of the enabled argument.
Settles_NoArgCheck(c) ==
    CASE IsGet(c) /\ Fresh(CacheGet(getCacheKey(c)), now)   -> "hit"
      [] c.api = "topgg" /\ ~token                       -> "err"
      [] c.api = "topgg" /\ Truthy(rateLimitReset) /\ now < rateLimitReset
                                                         -> "err"
      [] QueryThrows(c)                                  -> "throw"
      [] OTHER                                           -> ""

\* The result of call c when it is settled without the network, "" when
\* the request goes out.  TopGGAPI: the cache (lines 228-232), then the
\* token and the lockout (lines 179-182), then the query (lines 185-190).
\* AriwaAPI: the argument check of setUserReminders (line 356), the cache.
Settles(c) ==
    CASE c.m = "setUserReminders" /\ c.arg = "undefined" -> "err"
      [] IsGet(c) /\ Fresh(CacheGet(getCacheKey(c)), now)   -> "hit"
      [] c.api = "topgg" /\ ~token                       -> "err"
      [] c.api = "topgg" /\ Truthy(rateLimitReset) /\ now < rateLimitReset
                                                         -> "err"
      [] QueryThrows(c)                                  -> "throw"
      [] OTHER                                           -> ""

\* The failure message of a call settled with "err".
Message(c) ==
    CASE c.m = "setUserReminders" /\ c.arg = "undefined"
                            -> "remindersEnabled must be true or false"
      [] c.api = "topgg" /\ ~token -> "Top.gg token not provided"
      [] OTHER                     -> "Rate limited until"

\* A method of either wrapper is called: _fetchWithCache and _fetch up to
\* the await of safeFetchJSON.
Call(c) ==
    /\ LET how == Settles(c)
           key == getCacheKey(c)
       IN  /\ flight' = IF how = "" THEN flight (+) SetToBag({c})
                         ELSE flight
           /\ sent' = IF how = "" THEN sent + 1 ELSE sent
           /\ dirty' = IF IsGet(c) THEN dirty \ {key} ELSE dirty
           /\ ret' = [Ret("call") EXCEPT
                        !.c = c,
                        !.kind = CASE how = "hit" -> "ok"
                                   [] how = ""    -> "pending"
                                   [] OTHER       -> how,
                        !.msg = IF how = "err" THEN Message(c) ELSE "",
                        !.data = IF how = "hit"
                                 THEN Unwrap(c, CacheGet(key).data)
                                 ELSE Undefined,
                        !.net = (how = ""),
                        !.hit = (how = "hit")]
    /\ UNCHANGED <<client, token, cacheTTL, cache, rateLimitReset, now, srv,
                   limited>>

\* safeFetchJSON settles a request of call c with outcome o and the method
\* resumes: lines 202-207, then 218-225 or 235-238 (AriwaAPI: 327-331 or
\* 341-344).
Response(c, o) ==
    /\ BagIn(c, flight)
    /\ flight' = flight (-) SetToBag({c})
    /\ LET locks == c.api = "topgg" /\ o # "ok" /\ Includes429(o)
           data == IF IsGet(c) THEN srv ELSE srv + 1
       IN  /\ srv' = IF o = "ok" THEN data ELSE srv
           /\ cache' =
                CASE o = "ok" /\ IsGet(c) ->
                        CacheSet(getCacheKey(c),
                                 [data |-> data, expiry |-> now + cacheTTL])
                  [] o = "ok" /\ ~IsGet(c) -> CacheDelete(Invalidates(c))
                  [] OTHER -> cache
           /\ dirty' = IF o = "ok" /\ ~IsGet(c) THEN dirty \cup Invalidates(c)
                        ELSE dirty
           /\ rateLimitReset' = IF locks THEN now + RateLimitWindow
                                 ELSE rateLimitReset
           /\ limited' = IF c.api = "topgg" /\ o = "status429" THEN now
                          ELSE limited
           /\ ret' = [Ret("response") EXCEPT
                        !.c = c,
                        !.kind = IF o = "ok" THEN "ok" ELSE "err",
                        !.msg = CASE o = "ok" -> ""
                                  [] locks    -> "Rate limit exceeded, retry later"
                                  [] OTHER    -> "Failed to fetch",
                        !.data = IF o = "ok" THEN Unwrap(c, data) ELSE Undefined]
    /\ UNCHANGED <<client, token, cacheTTL, now, sent>>

\* The clock advances by one tick.
Tick ==
    /\ now' = now + 1
    /\ ret' = Ret("tick")
    /\ UNCHANGED <<client, token, cacheTTL, cache, rateLimitReset, flight,
                   sent, srv, dirty, limited>>

\* ------------------------------------------------------------------ Next
\* A close event on s with this code makes the close handler call reconnect().
Schedules(s, code) == Live(s) /\ socks[s].handlers /\ ShouldReconnect(code)

\* The caller, bounded: no connect() once max sockets are committed.
\* Overrides are drawn from overrides.
Caller(max, overrides) ==
    \/ \E m \in overrides : ~crashed /\ Committed < max /\ connect(m)
    \/ ~crashed /\ Committed < max /\ connectLoad
    \/ ~crashed /\ disconnect

\* The network and the file read, bounded: no close that schedules a
\* reconnection once max sockets are committed, so that a pending timer can
\* always fire.  Messages are drawn from msgs.
Network(max, msgs) ==
    \/ \E v \in LoadResults : ~crashed /\ connectResume(v)
    \/ \E s \in 1..max : ~crashed /\ WsOpen(s)
    \/ \E s \in 1..max : \E raw \in msgs : ~crashed /\ handleMessage(s, raw)
    \/ \E s \in 1..max : \E code \in CloseCodes :
          /\ ~crashed
          /\ Schedules(s, code) => Committed < max
          /\ WsClose(s, code)
    \/ \E s \in 1..max : ~crashed /\ WsError(s)

\* The delay of a reconnection elapses.
Timer == ~crashed /\ TimerFire

\* The timeout of a disconnect() elapses.
Timeout == \E s \in DOMAIN socks : ~crashed /\ DisconnectTimeout(s)

\* The file system settles a write of saveTimestamp.
Persist ==
    \/ \E v \in Markers : ~crashed /\ WriteDone(v)
    \/ \E v \in Markers : ~crashed /\ WriteFail(v)

\* The connection lifecycle: up to MaxSockets sockets, any configuration,
\* frames without a marker, no override.
LifeMsgs ==
    {[kind |-> "frame", op |-> 10, d |-> [id |-> 1, ts |-> Undefined],
      ts |-> Undefined]}
LifeOverrides == {Undefined}

Next ==
    \/ Caller(MaxSockets, LifeOverrides)
    \/ Network(MaxSockets, LifeMsgs)
    \/ Timer
    \/ Timeout

Spec == Init /\ [][Next]_vars

\* A timer fires once its delay has elapsed.
FairSpec == Spec /\ WF_vars(Timer) /\ WF_vars(Timeout)

\* Frames and markers: a client constructed with the default reconnection
\* options, MaxFrameSockets sockets none of which is replaced by a timer,
\* every message of RawMsgs and every override.
FrameInit ==
    /\ Constructed(TRUE, {Undefined, 1}, {DefaultDelays})
    /\ autoReconnect
    /\ maxReconnectAttempts = Infinity

FrameNext ==
    \/ Caller(MaxFrameSockets, OptMarkers)
    \/ Network(MaxFrameSockets, RawMsgs)
    \/ Persist

FrameSpec == FrameInit /\ [][FrameNext]_vars

\* The reconnection delay: a client with the default reconnection options
\* whose connection fails again and again, up to MaxAttemptNo attempts,
\* with every jitter of Jitters.
DelayInit ==
    /\ Constructed(TRUE, {Undefined}, DelayChoices)
    /\ autoReconnect
    /\ maxReconnectAttempts = Infinity

DelayNext ==
    \E j \in Jitters : reconnectAttempts < MaxAttemptNo /\ reconnect(j)

DelaySpec == DelayInit /\ [][DelayNext]_vars

\* The same for a caller that subscribes no listener to 'error'.
SilentInit ==
    /\ Constructed(FALSE, {Undefined}, {DefaultDelays})
    /\ autoReconnect
    /\ maxReconnectAttempts = Infinity

SilentSpec == SilentInit /\ [][FrameNext]_vars

\* The REST wrappers of a client that stays unconnected: with or without a
\* Top.gg token, either TTL, every call, every transport outcome, up to
\* MaxRequests requests and MaxNow ticks.
ApiInit ==
    /\ autoReconnect = TRUE
    /\ maxReconnectAttempts = Infinity
    /\ persistPath = FALSE
    /\ onError = TRUE
    /\ reconnectDelay = DefaultDelays[1]
    /\ maxReconnectDelay = DefaultDelays[2]
    /\ ws = 0
    /\ socks = <<>>
    /\ lastMessageTimestamp = Undefined
    /\ reconnectAttempts = 0
    /\ intentionalClose = FALSE
    /\ timers = 0
    /\ loads = 0
    /\ file = Undefined
    /\ writes = {}
    /\ crashed = FALSE
    /\ disc = {}
    /\ made = 0
    /\ last = Did("init")
    /\ token \in BOOLEAN
    /\ cacheTTL \in CacheTTLs
    /\ ApiIdle

\* The callers of the wrappers, the transport and the clock, bounded: calls
\* are drawn from calls, and none is sent once max requests were.
Rest(max, calls) ==
    \/ \E c \in calls : (Settles(c) = "" => sent < max) /\ Call(c)
    \/ \E c \in calls : \E o \in Outcomes : Response(c, o)
    \/ now < MaxNow /\ Tick

\* The calls that read and mutate the stats and the bot of B and the user U.
CoreCalls ==
    {c \in Calls : /\ c.m \in {"postStats", "getStats", "getBot", "hasVoted",
                                "getUser", "setUserReminders"}
                   /\ c.arg \in {"plain", "true"}}

ApiNext == Rest(MaxRequests, CoreCalls)

ApiSpec == ApiInit /\ [][ApiNext]_vars

\* Every method with every argument, up to MaxArgRequests requests.
ArgNext == Rest(MaxArgRequests, Calls)

ArgSpec == ApiInit /\ [][ArgNext]_vars

\* ================================================================ claims

\* C1: after disconnect() was called on an open socket, and until connect()
\* is called again, no reconnection is scheduled and no socket is created.
C1_NoConnectionAfterDisconnect ==
    "open" \in disc => ~last.created /\ ~last.sched

\* C2: after disconnect() was called while a reconnection timer was
\* pending, and until connect() is called again, no socket is created.
C2_PendingTimerNeutralized ==
    "timer" \in disc => ~last.created

\* C3: when a socket closes and the close was not intentional (the flag is
\* not set and disconnect() never asked this socket to close), autoReconnect
\* is on, the code is not 1000 and reconnectAttempts is below maxAttempts, a
\* reconnection is scheduled; when the flag is set, autoReconnect is off,
\* the code is 1000 or the attempts are used up, none is; a close creates
\* no socket by itself.
C3_ReconnectIffPolicy ==
    [][\A s \in DOMAIN socks :
         socks[s].readyState # "CLOSED" /\ socks'[s].readyState = "CLOSED" =>
           LET rest == /\ autoReconnect
                       /\ last'.code # NormalClosure
                       /\ reconnectAttempts < maxReconnectAttempts
           IN  /\ Len(socks') = Len(socks)
               /\ ~intentionalClose /\ ~socks[s].asked /\ rest
                     => timers' = timers + 1
               /\ intentionalClose \/ ~rest => timers' = timers]_vars

\* C4: the reconnect() calls made since the last open or connect() never
\* exceed maxAttempts, and once they have reached it no close event
\* schedules another one.
C4_AttemptsNeverExceedMax ==
    /\ [](made <= maxReconnectAttempts)
    /\ [][made >= maxReconnectAttempts => timers' <= timers /\ made' <= made]_vars

\* C4 happens: a close that the policy would reconnect but for the counter
\* having reached maxAttempts.
C4_Witness ==
    /\ last.act = "close" /\ last.handled /\ ~last.sched
    /\ last.code # NormalClosure
    /\ autoReconnect /\ ~intentionalClose
    /\ made = maxReconnectAttempts

\* C5: reconnectAttempts is 0 right after every socket open and right after
\* every connect().
C5_AttemptsZeroAfterOpen ==
    last.act \in {"open", "connect", "connectResume"} => reconnectAttempts = 0

\* C6: a close event with code 1000 schedules no reconnection, creates no
\* socket and leaves the attempt counter alone.
C6_NormalClosureNeverReconnects ==
    [][last'.act = "close" /\ last'.code = NormalClosure =>
         /\ timers' = timers
         /\ Len(socks') = Len(socks)
         /\ reconnectAttempts' = reconnectAttempts]_vars

\* C6 happens: a close with code 1000 that only the code keeps from
\* reconnecting.
C6_Witness ==
    /\ last.act = "close" /\ last.handled /\ last.code = NormalClosure
    /\ autoReconnect /\ ~intentionalClose
    /\ reconnectAttempts < maxReconnectAttempts

\* The event name the README and the spec give each op code.
EventName(op) ==
    CASE op = 3  -> "ready"
      [] op = 10 -> "vote"
      [] op = 11 -> "test"
      [] op = 12 -> "reminder"
      [] OTHER   -> "unknownOp"

\* C7 as stated: a valid frame makes handleMessage emit exactly one event;
\* for op 3, 10, 11, 12 the named event carrying d merged with ts when the
\* frame has one, for any other op unknownOp carrying op and d.
C7_OneEventMergedWithTs ==
    last.act = "message" /\ last.raw.kind = "frame" =>
        /\ Len(last.emits) = 1
        /\ last.emits[1].name = EventName(last.raw.op)
        /\ IF last.raw.op \in {3, 10, 11, 12}
           THEN last.emits[1].payload =
                  IF last.raw.ts # Undefined
                  THEN [id |-> last.raw.d.id, ts |-> last.raw.ts]
                  ELSE last.raw.d
           ELSE /\ last.emits[1].arg = last.raw.op
                /\ last.emits[1].payload = last.raw.d

\* C7 as amended: the same, except that 'ready' (op 3) carries d alone,
\* never merged with ts.
C7_OneEventReadyUnmerged ==
    last.act = "message" /\ last.raw.kind = "frame" =>
        /\ Len(last.emits) = 1
        /\ last.emits[1].name = EventName(last.raw.op)
        /\ IF last.raw.op \in {10, 11, 12}
           THEN last.emits[1].payload =
                  IF last.raw.ts # Undefined
                  THEN [id |-> last.raw.d.id, ts |-> last.raw.ts]
                  ELSE last.raw.d
           ELSE last.emits[1].payload = last.raw.d
        /\ last.raw.op \notin {3, 10, 11, 12} => last.emits[1].arg = last.raw.op

\* C7 happens: a ready frame that has a ts was dispatched.
C7_Witness ==
    /\ last.act = "message" /\ last.raw.kind = "frame"
    /\ last.raw.op = 3 /\ last.raw.ts # Undefined
    /\ Len(last.emits) = 1 /\ last.emits[1].name = "ready"

\* C8: a message that is not a structured frame makes handleMessage emit
\* exactly one 'error' event and nothing else: nothing escapes the handler,
\* the marker in memory and on disk, the sockets and the timers stay as
\* they were.
C8_MalformedOnlyError ==
    [][last'.act = "message" /\ last'.raw.kind # "frame" =>
         /\ Len(last'.emits) = 1
         /\ last'.emits[1].name = "error"
         /\ ~last'.threw
         /\ lastMessageTimestamp' = lastMessageTimestamp
         /\ file' = file /\ writes' = writes
         /\ socks' = socks /\ ws' = ws /\ timers' = timers]_vars

\* C9: no message makes lastMessageTimestamp decrease.
C9_MarkerNeverDecreases ==
    [][last'.act = "message" =>
         lastMessageTimestamp' >= lastMessageTimestamp]_vars

\* C10: every connection attempt carries the client's marker in the
\* handshake: the override of connect(m), else the value loaded from the
\* file, else no header; on a reconnect the marker held in memory.
C10_HandshakeCarriesMarker ==
    last.created =>
        last.header =
            CASE last.act \in {"connect", "connectResume"} ->
                    IF last.arg # Undefined THEN toString(last.arg) ELSE Absent
              [] OTHER ->
                    IF lastMessageTimestamp # Undefined
                    THEN toString(lastMessageTimestamp) ELSE Absent

\* C11 as stated: a GET of either wrapper is answered from the cache, with
\* the cached payload and without a network request, exactly when the cache
\* holds an entry for its key with now < expiry; and a GET whose entry has
\* expired sends a new request.
C11_CacheHitIffLive ==
    [][ret'.act = "call" /\ IsGet(ret'.c) =>
         LET e == CacheGet(getCacheKey(ret'.c))
             live == e # NoEntry /\ now < e.expiry
         IN  /\ ret'.hit <=> live
             /\ ret'.hit => /\ ~ret'.net /\ sent' = sent
                            /\ ret'.kind = "ok"
                            /\ ret'.data = Unwrap(ret'.c, e.data)
             /\ e # NoEntry /\ ~live => ret'.net /\ sent' = sent + 1]_vars

\* C11 as amended: the same, except that a GET whose entry has expired
\* sends a new request unless the TopGGAPI lockout refuses it.
C11_CacheHitIffLiveUnlessLocked ==
    [][ret'.act = "call" /\ IsGet(ret'.c) =>
         LET e == CacheGet(getCacheKey(ret'.c))
             live == e # NoEntry /\ now < e.expiry
             locked == /\ ret'.c.api = "topgg"
                       /\ rateLimitReset # Undefined /\ now < rateLimitReset
         IN  /\ ret'.hit <=> live
             /\ ret'.hit => /\ ~ret'.net /\ sent' = sent
                            /\ ret'.kind = "ok"
                            /\ ret'.data = Unwrap(ret'.c, e.data)
             /\ e # NoEntry /\ ~live /\ ~locked
                   => ret'.net /\ sent' = sent + 1]_vars

\* C11 happens: a second GET was answered from the cache after time passed,
\* with one request sent in all.
C11_Witness ==
    /\ ret.act = "call" /\ ret.hit /\ ret.kind = "ok"
    /\ now > 0 /\ sent = 1

\* C12: after a successful postStats(B) the next getStats(B) and the next
\* getBot(B), and after a successful setUserReminders(U, b) the next
\* getUser(U), are not answered from the cache, whatever was in flight when
\* the mutating call completed.
C12_FreshReadAfterMutation ==
    [][/\ ret'.act = "call" /\ IsGet(ret'.c)
       /\ getCacheKey(ret'.c) \in dirty
       => ~ret'.hit]_vars

\* C13: a TopGGAPI call made less than 60 seconds after the transport
\* reported status 429 returns an error at once and sends nothing, cache
\* entry or not; once that window is over the lockout it started refuses
\* no call.
C13_LockoutRefusesEveryCall ==
    [][ret'.act = "call" /\ ret'.c.api = "topgg" /\ limited # Undefined =>
         /\ now < limited + RateLimitWindow
               => ret'.kind = "err" /\ ~ret'.net /\ sent' = sent
         /\ now >= limited + RateLimitWindow
               /\ rateLimitReset = limited + RateLimitWindow
               => ret'.msg # "Rate limited until"]_vars

\* C14: without a Top.gg token every TopGGAPI method returns the failure
\* 'Top.gg token not provided', sends nothing and leaves the cache and the
\* lockout as they were, after any history of calls.
C14_NoTokenNoNetwork ==
    [][~token /\ ret'.act = "call" /\ ret'.c.api = "topgg" =>
         /\ ret'.kind = "err"
         /\ ret'.msg = "Top.gg token not provided"
         /\ ~ret'.net /\ sent' = sent /\ flight' = flight
         /\ cache' = cache
         /\ rateLimitReset' = rateLimitReset]_vars

\* C14 happens: with no token, after an AriwaAPI request was sent and time
\* has passed, hasVoted was called with an undefined user id and refused.
C14_Witness ==
    /\ ~token /\ sent > 0 /\ now > 0
    /\ ret.act = "call" /\ ret.c.m = "hasVoted" /\ ret.c.arg = "undefined"
    /\ ret.kind = "err"

\* C15: every call of either wrapper completes with a success or a failure
\* result; none throws or yields a rejected promise.
C15_AlwaysAResult ==
    ret.act \in {"call", "response"} => ret.kind \in {"ok", "err", "pending"}

\* C16: disconnect() on an open socket marks the close intentional, asks
\* the socket to close and leaves its promise pending; the socket's close
\* event resolves the promise still pending, the 5 second timeout rejects
\* it; disconnect() with no open socket resolves at once.
C16_DisconnectSettles ==
    [][/\ last'.act = "disconnect" /\ last'.handled =>
             /\ intentionalClose'
             /\ socks'[ws].readyState = "CLOSING"
             /\ socks'[ws].promise = "pending"
       /\ last'.act = "disconnect" /\ ~last'.handled =>
             last'.settled = "resolved"
       /\ \A s \in DOMAIN socks : socks[s].promise = "pending" =>
             /\ socks[s].readyState # "CLOSED" /\ socks'[s].readyState = "CLOSED"
                   => socks'[s].promise = "none" /\ last'.settled = "resolved"
             /\ last'.act = "timeout" /\ socks'[s].promise = "none"
                   => last'.settled = "rejected"]_vars

\* C17: a close event of a socket that is not the client's current handle
\* schedules no reconnection, leaves the attempt counter alone and neither
\* replaces nor clears the current handle.
C17_StaleCloseHarmless ==
    [][\A s \in DOMAIN socks :
         /\ s # ws
         /\ socks[s].readyState # "CLOSED" /\ socks'[s].readyState = "CLOSED"
         => /\ timers' = timers
            /\ reconnectAttempts' = reconnectAttempts
            /\ ws' = ws]_vars

\* C18: at most one socket is open or opening with the client's handlers
\* attached.
C18_OneLiveConnection ==
    Cardinality({s \in DOMAIN socks :
                   /\ socks[s].handlers
                   /\ socks[s].readyState \in {"CONNECTING", "OPEN"}}) <= 1

\* C19: when the caller listens to no 'error', a transport error or a
\* malformed frame on a socket with the client's handlers raises no
\* exception and does not end the process.
C19_SilentErrorsHarmless ==
    ~onError /\ last.act \in {"error", "message"} /\ last.handled
        => ~last.threw /\ ~crashed

\* C20: the delay d scheduled for attempt number n >= 1 satisfies
\* min(initialDelay * 1.5^(n-1), maxDelay) <= d
\*   <= min(initialDelay * 1.5^(n-1), maxDelay) + 1000, hence
\* d <= maxDelay + 1000.  The delay is the fraction last.delay[1] / [2].
C20_DelayWithinBounds ==
    last.sched =>
        LET n == reconnectAttempts
            p == last.delay[1]
            q == last.delay[2]
            a == reconnectDelay * Pow(3, n - 1)
            b == Pow(2, n - 1)
            capped == a > maxReconnectDelay * b
        IN  /\ n >= 1 /\ q > 0
            /\ IF capped
               THEN /\ maxReconnectDelay * q <= p
                    /\ p <= (maxReconnectDelay + 1000) * q
               ELSE /\ a * q <= p * b
                    /\ p * b <= (a + 1000 * b) * q
            /\ p <= (maxReconnectDelay + 1000) * q

\* C20 happens: an attempt whose exponential delay exceeds maxDelay was
\* scheduled with the largest jitter.
C20_Witness ==
    /\ last.act = "reconnect" /\ last.sched
    /\ <<reconnectDelay, maxReconnectDelay>> = DefaultDelays
    /\ reconnectAttempts >= 10
    /\ last.delay = <<maxReconnectDelay + 999, 1>>

\* C21: setUserReminders(userId, undefined) returns the failure
\* 'remindersEnabled must be true or false', sends nothing and leaves the
\* cache as it was, whatever the cache holds.
C21_UndefinedRemindersRefused ==
    [][/\ ret'.act = "call"
       /\ ret'.c.m = "setUserReminders" /\ ret'.c.arg = "undefined"
       => /\ ret'.kind = "err"
          /\ ret'.msg = "remindersEnabled must be true or false"
          /\ ~ret'.net /\ sent' = sent /\ flight' = flight
          /\ cache' = cache]_vars

\* C21 happens: the user U is cached and setUserReminders(U, undefined) was
\* refused.
C21_Witness ==
    /\ "/user/U" \in DOMAIN cache
    /\ ret.act = "call"
    /\ ret.c.m = "setUserReminders" /\ ret.c.arg = "undefined"
    /\ ret.kind = "err"

\* C22: when two writes of saveTimestamp complete one after the other and
\* the second leaves none in flight, the file holds the marker the client
\* observed last.
C22_FileHoldsLatestMarker ==
    [][/\ last.act = "writeDone" /\ last'.act = "writeDone"
       /\ writes' = {}
       => file' = lastMessageTimestamp']_vars

\* C23: a frame delivered to handleMessage is dispatched in the step of
\* its arrival, as the one event of its op code, whatever writes are in
\* flight, so events leave in the order of arrival; and a write that
\* completes or fails emits nothing, raises nothing and leaves the marker
\* and the sockets alone.
C23_WritesNeverDisturbDispatch ==
    [][/\ last'.act = "message" /\ last'.raw.kind = "frame"
          => /\ Len(last'.emits) = 1
             /\ last'.emits[1].name = EventName(last'.raw.op)
             /\ ~last'.threw /\ crashed' = crashed
       /\ last'.act \in {"writeDone", "writeFail"}
          => /\ last'.emits = <<>>
             /\ ~last'.threw /\ crashed' = crashed
             /\ lastMessageTimestamp' = lastMessageTimestamp
             /\ socks' = socks /\ ws' = ws]_vars

\* C23 happens: a frame was dispatched while the write of an earlier
\* frame's marker was still in flight.
C23_Witness ==
    /\ last.act = "message" /\ last.raw.kind = "frame"
    /\ Len(last.emits) = 1
    /\ Cardinality(writes) = 2

C25_QuietAfterResolvedDisconnect ==
    last.settled = "resolved" =>
        \A s \in DOMAIN socks :
           ~(/\ socks[s].handlers
             /\ socks[s].readyState \in {"CONNECTING", "OPEN"})

\* C26: the lockout of TopGGAPI starts, or is extended, only by a response
\* whose HTTP status is 429.
C26_LockoutOnlyOnStatus429 ==
    [][rateLimitReset' # rateLimitReset =>
         /\ ret'.act = "response" /\ ret'.c.api = "topgg"
         /\ limited' = now]_vars
====
